---- MODULE Spec2Model ----
(***************************************************************************)
(* The versioned datapoint codec of src/main.rs: MyEnum (built by the      *)
(* generate_dp_enum! macro), the framing struct DpIo<SizeType, IdType>     *)
(* with its three instantiations, and the two entry points                 *)
(* read_with_dp_version / write_with_dp_version acting on a                *)
(* Cursor<Vec<u8>>.                                                        *)
(*                                                                         *)
(* A cursor is the pair (stream, pos): stream is the byte vector (1-based  *)
(* here, so the byte at offset k is stream[k+1]) and pos the offset of the *)
(* next read or write.                                                     *)
(*                                                                         *)
(* TLC integers are 32-bit signed, so a u32 payload is held as its two     *)
(* 16-bit halves [hi, lo] (value = hi * 65536 + lo); u8 and u16 are plain  *)
(* integers.                                                               *)
(***************************************************************************)
EXTENDS Integers, Sequences, FiniteSets, TLC

VARIABLES stream, pos, last, nwrites

vars == <<stream, pos, last, nwrites>>

(***************************************************************************)
(* Bounds of the model.                                                    *)
(***************************************************************************)
\* Calls of write_with_dp_version made on one cursor.
MaxWrites == 2
\* Length of the longer array payloads of WideEnum: with a one-byte tag in
\* front, LongPayload bytes are the most the one-byte size field can count.
LongPayload == 254
\* Longest byte string handed to Cursor::new for decoding.
MaxLen == 5

\* u8::MAX
U8Max == 255

\* Versions passed by the caller (version: u8): the three named ones, and 3
\* and u8::MAX for the values above 2.
Versions == {0, 1, 2, 3, U8Max}

(***************************************************************************)
(* The catalog: the argument of generate_dp_enum!.  One entry per variant, *)
(* in declaration order: name, payload type, tag ($hex_value).             *)
(***************************************************************************)
U8Ty == [kind |-> "u8", len |-> 1]
U32Ty == [kind |-> "u32", len |-> 4]
ArrayTy(n) == [kind |-> "u8array", len |-> n]

MyEnum ==
    << [variant |-> "Variant1", ty |-> U32Ty, tag |-> 16],
       [variant |-> "Variant2", ty |-> U8Ty, tag |-> 32] >>

\* Another argument of generate_dp_enum!: MyEnum's variants, a variant whose
\* tag does not fit one byte, and two array variants whose frames reach and
\* pass what a one-byte size can hold.
WideEnum ==
    MyEnum \o
    << [variant |-> "Variant3", ty |-> U8Ty, tag |-> 288],
       [variant |-> "Variant4", ty |-> ArrayTy(LongPayload), tag |-> 48],
       [variant |-> "Variant5", ty |-> ArrayTy(LongPayload + 1), tag |-> 49] >>

\* A tagged value: the active variant and its payload.
Val(variant, payload) == [variant |-> variant, payload |-> payload]
U32(hi, lo) == [hi |-> hi, lo |-> lo]
NoValue == Val("none", 0)

Entry(cat, v) == CHOOSE e \in {cat[i] : i \in 1..Len(cat)} : e.variant = v.variant

\* pub const fn get_id(&self) -> u16
get_id(cat, v) == Entry(cat, v).tag

(***************************************************************************)
(* Little-endian integer layout (#[brw(little)]).                          *)
(***************************************************************************)
\* an unsigned integer n < 2^16 as `width` bytes (width 1 or 2)
IntToLe(n, width) ==
    IF width = 1 THEN <<n % 256>> ELSE <<n % 256, (n \div 256) % 256>>

\* the integer read most significant byte first
IntFromBe(bytes) ==
    IF Len(bytes) = 1 THEN bytes[1] ELSE 256 * bytes[1] + bytes[2]

IntFromLe(bytes) ==
    IF Len(bytes) = 1 THEN bytes[1] ELSE bytes[1] + 256 * bytes[2]

\* the payload written most significant byte first
PayloadToBe(ty, p) ==
    CASE ty.kind = "u8" -> <<p>>
      [] ty.kind = "u32" ->
            <<p.hi \div 256, p.hi % 256, p.lo \div 256, p.lo % 256>>
      [] OTHER -> p

\* payload of type ty as bytes
PayloadToLe(ty, p) ==
    CASE ty.kind = "u8" -> <<p>>
      [] ty.kind = "u32" ->
            <<p.lo % 256, p.lo \div 256, p.hi % 256, p.hi \div 256>>
      [] OTHER -> p

PayloadFromLe(ty, bytes) ==
    CASE ty.kind = "u8" -> bytes[1]
      [] ty.kind = "u32" ->
            U32(bytes[3] + 256 * bytes[4], bytes[1] + 256 * bytes[2])
      [] OTHER -> bytes

(***************************************************************************)
(* std::io::Cursor<Vec<u8>>                                                *)
(***************************************************************************)
Cur(s, p) == [stream |-> s, pos |-> p]

Zeros(n) == [i \in 1..n |-> 0]

\* Write::write_all on Cursor<Vec<u8>>: a write past the end first fills the
\* gap with zeros; bytes under the written range are overwritten, the rest
\* of the vector is kept.
CursorWrite(c, bytes) ==
    LET s == c.stream
        p == c.pos
        n == Len(bytes)
        padded == IF Len(s) < p THEN s \o Zeros(p - Len(s)) ELSE s
        tail == IF Len(padded) > p + n
                THEN SubSeq(padded, p + n + 1, Len(padded))
                ELSE <<>>
    IN  Cur(SubSeq(padded, 1, p) \o bytes \o tail, p + n)

\* Seek::seek(SeekFrom::Start(n))
SeekStart(c, n) == Cur(c.stream, n)

\* Read::read_exact: n bytes at the position, or none when fewer remain
CanRead(c, n) == c.pos + n <= Len(c.stream)
CursorBytes(c, n) == SubSeq(c.stream, c.pos + 1, c.pos + n)

(***************************************************************************)
(* Outcome of one call: Ok(value) or Err(err), and the cursor it leaves.   *)
(***************************************************************************)
Outcome(ok, value, err, c) ==
    [ok |-> ok, value |-> value, err |-> err, stream |-> c.stream, pos |-> c.pos]

Ok(value, c) == Outcome(TRUE, value, "", c)
Err(err, c) == Outcome(FALSE, NoValue, err, c)

(***************************************************************************)
(* Decoding.                                                               *)
(***************************************************************************)
\* the enum read without the pre_assert on the id
RECURSIVE MyEnumReadAnyId(_, _, _, _)
MyEnumReadAnyId(cat, i, id, c) ==
    IF i > Len(cat) THEN Err("EnumErrors", c)
    ELSE LET e == cat[i]
         IN  IF CanRead(c, e.ty.len)
             THEN Ok(Val(e.variant, PayloadFromLe(e.ty, CursorBytes(c, e.ty.len))),
                     Cur(c.stream, c.pos + e.ty.len))
             ELSE MyEnumReadAnyId(cat, i + 1, id, c)

\* derive(BinRead) on the enum, #[br(import(id: u16))]: the variants are
\* tried in declaration order from catalog index i on; a variant is read
\* only when its pre_assert(id == $hex_value) holds and its payload is
\* complete; the first variant that reads is the result, and when none does
\* the enum read fails (binrw::Error::EnumErrors).
RECURSIVE MyEnumRead(_, _, _, _)
MyEnumRead(cat, i, id, c) ==
    IF i > Len(cat) THEN Err("EnumErrors", c)
    ELSE LET e == cat[i]
         IN  IF id = e.tag /\ CanRead(c, e.ty.len)
             THEN Ok(Val(e.variant, PayloadFromLe(e.ty, CursorBytes(c, e.ty.len))),
                     Cur(c.stream, c.pos + e.ty.len))
             ELSE MyEnumRead(cat, i + 1, id, c)

\* Extended framing as DpIo<(), u16>: no size field
DpIoV2Unprefixed == [size |-> 0, id |-> 2]

\* The three instantiations of DpIo<SizeType, IdType>, as the byte widths
\* size_of::<SizeType>() and size_of::<IdType>().
DpIoDefault == [size |-> 0, id |-> 1]
DpIoSimple == [size |-> 1, id |-> 1]
DpIoV2 == [size |-> 1, id |-> 2]

\* DpIo::read that rejects a declared size differing from the bytes of tag
\* and payload it consumed
DpIoReadChecked(cat, cfg, c) ==
    IF ~CanRead(c, cfg.size) THEN Err("Io", c)
    ELSE LET c1 == Cur(c.stream, c.pos + cfg.size)
         IN  IF ~CanRead(c1, cfg.id) THEN Err("Io", c)
             ELSE LET id == IntFromLe(CursorBytes(c1, cfg.id))
                      c2 == Cur(c.stream, c1.pos + cfg.id)
                      r == MyEnumRead(cat, 1, id, c2)
                  IN  IF ~r.ok THEN Err(r.err, c)
                      ELSE IF cfg.size > 0 /\ c.stream[c.pos + 1] # r.pos - c1.pos
                           THEN Err("AssertFail: declared size", c)
                           ELSE r

\* DpIo::read (derive(BinRead), little endian): _size (temp, dropped), id,
\* inner with args(id.into()); on an error the reader is put back where the
\* read began.
DpIoRead(cat, cfg, c) ==
    IF ~CanRead(c, cfg.size) THEN Err("Io", c)
    ELSE LET c1 == Cur(c.stream, c.pos + cfg.size)
         IN  IF ~CanRead(c1, cfg.id) THEN Err("Io", c)
             ELSE LET id == IntFromLe(CursorBytes(c1, cfg.id))
                      c2 == Cur(c.stream, c1.pos + cfg.id)
                      r == MyEnumRead(cat, 1, id, c2)
                  IN  IF r.ok THEN r ELSE Err(r.err, c)

\* read_with_dp_version taking only version 2 as Extended
read_with_dp_version_closed(cat, c, version) ==
    CASE version = 0 -> DpIoRead(cat, DpIoDefault, c)
      [] version = 2 -> DpIoRead(cat, DpIoV2, c)
      [] OTHER -> DpIoRead(cat, DpIoSimple, c)

\* MyEnum::read_with_dp_version
read_with_dp_version(cat, c, version) ==
    CASE version = 0 -> DpIoRead(cat, DpIoDefault, c)
      [] version = 1 -> DpIoRead(cat, DpIoSimple, c)
      [] OTHER -> DpIoRead(cat, DpIoV2, c)

(***************************************************************************)
(* Encoding.                                                               *)
(***************************************************************************)
\* derive(BinWrite) on the enum: the payload of the active variant, no tag
MyEnumWrite(cat, inner) == PayloadToLe(Entry(cat, inner).ty, inner.payload)

\* a conversion that never fails (value as u8)
try_from_stream_position_wrapping(value) == TRUE

\* impl FromStreamPos for u8: u8::try_from(value), TRUE when it is Ok
try_from_stream_position(value) == value <= U8Max

\* enum_writer counting from the start of the stream, size field included
enum_writer_whole(cat, cfg, inner, c) ==
    LET c1 == CursorWrite(c, MyEnumWrite(cat, inner))
        bytes_written == c1.pos
    IN  IF cfg.size > 0
        THEN IF try_from_stream_position(bytes_written)
             THEN Ok(inner, CursorWrite(SeekStart(c1, 0), <<bytes_written>>))
             ELSE Err("AssertFail: datapoint size", c1)
        ELSE Ok(inner, c1)

\* DpIo::enum_writer (write_with of the field inner), entered with the
\* writer right after the id
enum_writer(cat, cfg, inner, c) ==
    LET c1 == CursorWrite(c, MyEnumWrite(cat, inner))
        bytes_written == c1.pos - cfg.size
    IN  IF cfg.size > 0
        THEN IF try_from_stream_position(bytes_written)
             THEN Ok(inner, CursorWrite(SeekStart(c1, 0), <<bytes_written>>))
             ELSE Err("AssertFail: datapoint size", c1)
        ELSE Ok(inner, c1)

\* DpIo::write (derive(BinWrite)): _size is not written but its seek_before
\* moves the writer to SeekFrom::Start(size_of::<SizeType>()); then id,
\* then inner through enum_writer
DpIoWrite(cat, cfg, id, inner, c) ==
    LET c0 == SeekStart(c, cfg.size)
        c1 == CursorWrite(c0, IntToLe(id, cfg.id))
    IN  enum_writer(cat, cfg, inner, c1)

\* a conversion that never fails (id as u8)
IdFitsU8Wrapping(id) == TRUE

\* u8::try_from(u16) of DpIoDefault::new and DpIoSimple::new
IdFitsU8(id) == id <= U8Max

\* DpIoDefault::new(..)?.write(cursor)
DpIoDefault_new_write(cat, inner, c) ==
    IF IdFitsU8(get_id(cat, inner))
    THEN DpIoWrite(cat, DpIoDefault, get_id(cat, inner), inner, c)
    ELSE Err("AssertFail: id Default", c)

\* DpIoSimple::new(..)?.write(cursor)
DpIoSimple_new_write(cat, inner, c) ==
    IF IdFitsU8(get_id(cat, inner))
    THEN DpIoWrite(cat, DpIoSimple, get_id(cat, inner), inner, c)
    ELSE Err("AssertFail: id Simple", c)

\* DpIoV2::new(..).write(cursor)
DpIoV2_new_write(cat, inner, c) ==
    DpIoWrite(cat, DpIoV2, get_id(cat, inner), inner, c)

\* MyEnum::write_with_dp_version
write_with_dp_version(cat, inner, c, version) ==
    CASE version = 0 -> DpIoDefault_new_write(cat, inner, c)
      [] version = 1 -> DpIoSimple_new_write(cat, inner, c)
      [] OTHER -> DpIoV2_new_write(cat, inner, c)

(***************************************************************************)
(* Inputs.                                                                 *)
(***************************************************************************)
U32Samples == {U32(0, 1), U32(0, 1234), U32(258, 772), U32(65535, 65535)}
U8Samples == {0, U8Max}

MyEnumValues ==
    {Val("Variant1", p) : p \in U32Samples} \cup {Val("Variant2", p) : p \in U8Samples}

WideEnumValues ==
    { Val("Variant2", U8Max), Val("Variant3", 7),
      Val("Variant4", [i \in 1..LongPayload |-> U8Max]),
      Val("Variant5", [i \in 1..(LongPayload + 1) |-> U8Max]) }

\* Bytes of the strings handed to the decoder: both catalog tags, 0 and 255.
InputBytes == {0, 16, 32, 255}

\* The two byte strings test_read decodes.
TestVectors == { <<5, 16, 1, 0, 0, 0>>, <<5, 32, 0, 255>> }

InputStreams ==
    UNION { [1..n -> InputBytes] : n \in 0..MaxLen } \cup TestVectors

(***************************************************************************)
(* State: the cursor, the last call with its arguments, the cursor it was  *)
(* made on and what it returned, and the number of encode calls so far.    *)
(***************************************************************************)
Call(op, version, arg, c, o) ==
    [op |-> op, version |-> version, arg |-> arg,
     preStream |-> c.stream, prePos |-> c.pos,
     ok |-> o.ok, value |-> o.value, err |-> o.err]

NoCall == Call("none", 0, NoValue, Cur(<<>>, 0), Err("", Cur(<<>>, 0)))

\* binrw::io::Cursor::new(vec![])
Init ==
    /\ stream = <<>>
    /\ pos = 0
    /\ last = NoCall
    /\ nwrites = 0

\* value.write_with_dp_version(&mut cursor, version)
Write(cat, v, version) ==
    /\ nwrites < MaxWrites
    /\ LET o == write_with_dp_version(cat, v, Cur(stream, pos), version)
       IN  /\ stream' = o.stream
           /\ pos' = o.pos
           /\ last' = Call("write", version, v, Cur(stream, pos), o)
    /\ nwrites' = nwrites + 1

\* MyEnum::read_with_dp_version(&mut cursor, version)
Read(cat, version) ==
    /\ LET o == read_with_dp_version(cat, Cur(stream, pos), version)
       IN  /\ pos' = o.pos
           /\ last' = Call("read", version, NoValue, Cur(stream, pos), o)
    /\ UNCHANGED <<stream, nwrites>>

\* binrw::io::Cursor::new(bytes) over the bytes the cursor holds: the same
\* bytes, read from offset 0
CursorNew ==
    /\ pos' = 0
    /\ last' = Call("new", 0, NoValue, Cur(stream, pos), Ok(NoValue, Cur(stream, 0)))
    /\ UNCHANGED <<stream, nwrites>>

WriteMyEnum == \E v \in MyEnumValues, version \in Versions : Write(MyEnum, v, version)
ReadMyEnum == \E version \in Versions : Read(MyEnum, version)

Next == WriteMyEnum \/ ReadMyEnum \/ CursorNew

Spec == Init /\ [][Next]_vars

\* Decoding of arbitrary input: Cursor::new(bytes) for any byte string
InitDecode ==
    /\ stream \in InputStreams
    /\ pos = 0
    /\ last = NoCall
    /\ nwrites = 0

NextDecode == ReadMyEnum \/ CursorNew

SpecDecode == InitDecode /\ [][NextDecode]_vars

\* Encoding with the catalog WideEnum
WriteWideEnum ==
    \E v \in WideEnumValues, version \in Versions : Write(WideEnum, v, version)

NextWide == WriteWideEnum \/ CursorNew

SpecWide == Init /\ [][NextWide]_vars

(***************************************************************************)
(* Properties.                                                             *)
(***************************************************************************)
WroteIntoEmpty == last.op = "write" /\ last.preStream = <<>> /\ last.prePos = 0

\* C1: a catalog value encoded into an empty stream under version 0, 1 or 2
\* is written without error, and decoding the bytes produced from offset 0
\* under the same version returns that value.
C1_RoundTrip ==
    (WroteIntoEmpty /\ last.version \in {0, 1, 2})
    => /\ last.ok
       /\ LET r == read_with_dp_version(MyEnum, Cur(stream, 0), last.version)
          IN  r.ok /\ r.value = last.arg

C1_Witness ==
    /\ WroteIntoEmpty /\ last.version = 2 /\ last.ok
    /\ last.arg = Val("Variant1", U32(258, 772))
    /\ read_with_dp_version(MyEnum, Cur(stream, 0), 2).value = last.arg

\* C2: after a successful encode into an empty stream under version 1 the
\* stream is [length][tag][payload], the length byte being the number of
\* bytes of tag plus payload; the 8-bit variant with value 255 gives 02 20 FF.
C2_LengthPrefixExact ==
    (WroteIntoEmpty /\ last.version = 1 /\ last.ok)
    => /\ stream = <<Len(stream) - 1>> \o <<get_id(MyEnum, last.arg)>>
                       \o MyEnumWrite(MyEnum, last.arg)
       /\ (last.arg = Val("Variant2", 255) => stream = <<2, 32, 255>>)
       /\ (last.arg.variant = "Variant1" => stream[1] = 5)

C2_Witness ==
    /\ WroteIntoEmpty /\ last.version = 1 /\ last.ok
    /\ last.arg = Val("Variant2", 255)
    /\ stream = <<2, 32, 255>>

\* C3 as stated: under a version >= 2 the frame written into an empty
\* stream is the 2-byte little-endian tag followed by the payload, with no
\* length prefix (6 bytes for the 32-bit variant).
C3_NoPrefixUnderV2 ==
    (WroteIntoEmpty /\ last.version >= 2 /\ last.ok)
    => /\ stream = IntToLe(get_id(MyEnum, last.arg), 2) \o MyEnumWrite(MyEnum, last.arg)
       /\ (last.arg = Val("Variant1", U32(0, 1)) => Len(stream) = 6)

\* C3 amended: under a version >= 2 the frame written into an empty stream
\* is a length byte counting tag plus payload, the 2-byte little-endian tag
\* and the payload; the 32-bit variant with value 1 gives the 7 bytes
\* 06 10 00 01 00 00 00.
C3_PrefixedUnderV2 ==
    (WroteIntoEmpty /\ last.version >= 2 /\ last.ok)
    => /\ stream = <<Len(stream) - 1>> \o IntToLe(get_id(MyEnum, last.arg), 2)
                       \o MyEnumWrite(MyEnum, last.arg)
       /\ (last.arg = Val("Variant1", U32(0, 1)) => stream = <<6, 16, 0, 1, 0, 0, 0>>)

C3_Witness ==
    /\ WroteIntoEmpty /\ last.version = 2 /\ last.ok
    /\ last.arg = Val("Variant1", U32(0, 1))
    /\ Len(stream) = 7

\* C4: decoding 05 20 00 FF from offset 0 under version 2 returns no error
\* and yields the 8-bit variant, whose get_id is 0x20.
C4_TestVectorV2 ==
    (last.op = "read" /\ last.preStream = <<5, 32, 0, 255>> /\ last.prePos = 0
        /\ last.version = 2)
    => /\ last.ok
       /\ last.value.variant = "Variant2"
       /\ get_id(MyEnum, last.value) = 32

C4_Witness ==
    /\ last.op = "read" /\ last.preStream = <<5, 32, 0, 255>> /\ last.prePos = 0
    /\ last.version = 2
    /\ last.value = Val("Variant2", 255)
    /\ pos = 4

\* The tag field of the frame that starts at offset p of s, by the layout of
\* the version: [tag:1], [size:1][tag:1] or [size:1][tag:2, little endian].
TagOffset(version) == IF version = 0 THEN 0 ELSE 1
TagWidth(version) == IF version >= 2 THEN 2 ELSE 1
HasTagField(s, p, version) == p + TagOffset(version) + TagWidth(version) <= Len(s)
TagField(s, p, version) ==
    LET at == p + TagOffset(version) + 1
    IN  IF TagWidth(version) = 1 THEN s[at] ELSE s[at] + 256 * s[at + 1]

\* C5: under each of the versions 0, 1 and 2, decoding a frame whose tag
\* field holds neither 0x10 nor 0x20 returns an error and no value, whatever
\* bytes follow the tag.
C5_UnknownTagRejected ==
    (last.op = "read" /\ last.version \in {0, 1, 2}
        /\ HasTagField(last.preStream, last.prePos, last.version)
        /\ TagField(last.preStream, last.prePos, last.version) \notin {16, 32})
    => (~last.ok /\ last.value = NoValue)

C5_Witness ==
    /\ last.op = "read" /\ last.version = 2 /\ last.prePos = 0
    /\ Len(last.preStream) = 5
    /\ TagField(last.preStream, 0, 2) = 16 + 256 * 32
    /\ ~last.ok /\ last.err = "EnumErrors"

\* C6: encoding a value whose tag exceeds 255 under version 0 or 1 fails on
\* the tag before anything is written (stream and position unchanged);
\* encoding it under version 2 succeeds.
C6_TagWidthBoundary ==
    (last.op = "write" /\ get_id(WideEnum, last.arg) > U8Max)
    => /\ last.version \in {0, 1} =>
            /\ ~last.ok
            /\ last.err \in {"AssertFail: id Default", "AssertFail: id Simple"}
            /\ stream = last.preStream
            /\ pos = last.prePos
       /\ last.version = 2 => last.ok

C6_Witness ==
    /\ last.op = "write" /\ last.arg = Val("Variant3", 7) /\ last.version = 1
    /\ ~last.ok
    /\ last.preStream # <<>> /\ stream = last.preStream

\* Bytes of tag plus payload of the last written value under Simple framing
SimpleCount == 1 + Len(MyEnumWrite(WideEnum, last.arg))

\* C7: under version 1 an encode (of a value whose tag fits one byte) fails
\* exactly when tag plus payload take more than 255 bytes, and then with
\* the size error; up to 255 bytes the byte at offset 0 is overwritten with
\* the count, above 255 the byte at offset 0 is not overwritten.
C7_LengthOverflow ==
    (last.op = "write" /\ last.version = 1)
    => /\ (last.err = "AssertFail: datapoint size") <=> (SimpleCount > U8Max)
       /\ get_id(WideEnum, last.arg) <= U8Max => (last.ok <=> SimpleCount <= U8Max)
       /\ last.ok => stream[1] = SimpleCount
       /\ SimpleCount > U8Max =>
             stream[1] = (IF last.preStream = <<>> THEN 0 ELSE last.preStream[1])

C7_Witness ==
    /\ last.op = "write" /\ last.version = 1
    /\ SimpleCount = U8Max + 1
    /\ last.err = "AssertFail: datapoint size"
    /\ last.preStream # <<>> /\ stream[1] = last.preStream[1]

\* The last call made again on the same cursor under version w
Replayed(w) ==
    IF last.op = "read"
    THEN read_with_dp_version(MyEnum, Cur(last.preStream, last.prePos), w)
    ELSE write_with_dp_version(MyEnum, last.arg, Cur(last.preStream, last.prePos), w)

\* C8: a decode or encode called with a version >= 2 returns what the same
\* call returns under every version in 2..255, version 2 included, and
\* leaves the same bytes and position.
C8_VersionFallback ==
    (last.op \in {"read", "write"} /\ last.version >= 2)
    => \A w \in 2..U8Max :
          LET o == Replayed(w)
          IN  /\ o.ok = last.ok /\ o.value = last.value /\ o.err = last.err
              /\ o.stream = stream /\ o.pos = pos

C8_Witness ==
    /\ last.op = "read" /\ last.version = U8Max /\ last.prePos = 0
    /\ last.ok /\ last.value = Val("Variant1", U32(0, 1234))
    /\ Replayed(2).value = last.value

\* C9: an encode called at an offset p > 0 leaves every byte below p as it
\* was.
C9_KeepsEarlierBytes ==
    (last.op = "write" /\ last.ok /\ last.prePos > 0)
    => SubSeq(stream, 1, last.prePos) = SubSeq(last.preStream, 1, last.prePos)

\* the frame at offset p with its first byte replaced by L
WithPrefix(s, p, L) == [s EXCEPT ![p + 1] = L]

\* C10: under version 1, whatever value 0..255 the length byte holds, the
\* decode returns the same value or the same error and stops at the same
\* offset.
C10_DeclaredLengthIgnored ==
    (last.op = "read" /\ last.version = 1 /\ last.prePos < Len(last.preStream))
    => \A L \in 0..U8Max :
          LET r == read_with_dp_version(
                       MyEnum, Cur(WithPrefix(last.preStream, last.prePos, L), last.prePos), 1)
          IN  r.ok = last.ok /\ r.value = last.value /\ r.err = last.err /\ r.pos = pos

C10_Witness ==
    /\ last.op = "read" /\ last.version = 1 /\ last.prePos = 0
    /\ last.ok /\ last.value = Val("Variant2", 0)
    /\ last.preStream[1] = U8Max /\ pos = 3

====
